---- MODULE Spec2Model ----
(***************************************************************************)
(* Model of the Notion synchronisation core of meeting-actions:            *)
(*   notion_sync.py  compute_external_id, find_existing_page,              *)
(*                   upsert_action_item, upsert_decision, sync_to_notion   *)
(*   app.py          sync_notion (POST /notion/sync), lifespan             *)
(*   database.py     SyncStorage, cleanup_old_data                         *)
(*   models.py       Decision, ActionItem, Analysis                        *)
(*                                                                         *)
(* Conventions.  Python None and the empty string behave alike wherever    *)
(* the code tests them (`x or ''`, `if x:`), so an absent string is the    *)
(* empty string "" and an absent meeting_url / title text is the empty     *)
(* sequence.  Titles and urls are sequences of one-character strings so    *)
(* that strip() and lower() are computed.  A remote page id is the index   *)
(* of the page in `pages`; 0 is "no page".  sha256 is taken to be          *)
(* injective: a digest is the record [sha256 |-> hashed text].             *)
(* The sqlite store is taken to answer every statement; the Notion store   *)
(* may fail any call.  Several server processes may share the sqlite file  *)
(* and the Notion workspace, so requests interleave at the remote calls.   *)
(*                                                                         *)
(* Specifications.  Spec: requests that interleave.  SpecSeq: requests     *)
(* handled one after another.  SpecId: compute_external_id applied to two  *)
(* (meeting_url, title) pairs.  SpecOrder: one whole sync computed with    *)
(* its two loops in either order from the same remote state.  SpecProps:   *)
(* the properties written for one item.  SpecAnalyze: analyze requests     *)
(* against the local store.  SpecLive: one sync request under weak         *)
(* fairness of its steps.                                                  *)
(***************************************************************************)
EXTENDS Integers, Sequences, FiniteSets, TLC

\* ---------------------------------------------------------------- bounds
MaxReqs == 2          \* sync requests received in one behaviour
MaxFaults == 1        \* remote calls that fail for reasons of the network in one behaviour
MaxTitleLen == 3      \* length of the titles compute_external_id is applied to on its own
MaxAnalyzeReqs == 4   \* analyze requests received in one behaviour

\* ------------------------------------------------------------- universes
Slots == {1, 2}                         \* requests that may be in flight together
AnalysisIds == {"a1"}                   \* analysis_id values; "" is None
Dbs == {"db1", "db2"}                   \* Notion database ids
Urls == {<<>>, <<"u">>}                 \* meeting_url values; <<>> is None
ConcurrentUrls == {<<"u">>}             \* meeting_url values of requests that interleave

\* Arguments of compute_external_id applied on its own: titles of letters in both
\* cases, blanks and the separator; meeting_url None, plain, and ending in the separator
TitleAlphabet == {"A", "a", " ", "|"}
Titles == UNION { [1..n -> TitleAlphabet] : n \in 0..MaxTitleLen }
IdUrls == {<<>>, <<"u">>, <<"u", "|">>}

\* ActionItem instances (models.py 16-22)
ActionAb == [title |-> <<"A", "b">>, assignee |-> "al", due |-> "", priority |-> "P1", notes |-> ""]

ActionAbSpaced == [title |-> <<" ", "a", "b", " ">>, assignee |-> "", due |-> "2025-01-01", priority |-> "", notes |-> "n"]

ActionBadPriority == [title |-> <<"c">>, assignee |-> "", due |-> "", priority |-> "P9", notes |-> ""]

\* Decision instance (models.py 8-13)
DecisionAb == [title |-> <<"A", "b">>, owner |-> "al", rationale |-> "r", effective_date |-> "2025-01-01"]

\* The analysis payloads a client sends
Payloads ==
  { [actions |-> <<ActionAb, ActionAbSpaced>>, decisions |-> <<>>],
    [actions |-> <<>>, decisions |-> <<DecisionAb>>],
    [actions |-> <<ActionAb, ActionBadPriority>>, decisions |-> <<>>] }

\* The payloads of requests handled one after another: also one with both kinds
SeqPayloads == Payloads \cup { [actions |-> <<ActionAb>>, decisions |-> <<DecisionAb>>] }

\* Variant of ActionItemValid: the priority field declared without its pattern
ActionItemValidNoPattern(a) == a.priority \in {"", "P0", "P1", "P2", "P9"}

\* ------------------------------------------------------------ models.py
\* ActionItem.priority: Optional[str] with pattern ^(P0|P1|P2)$
ActionItemValid(a) == a.priority \in {"", "P0", "P1", "P2"}

\* Analysis(**analysis_data): every item must validate
AnalysisValid(p) == \A i \in 1..Len(p.actions) : ActionItemValid(p.actions[i])

\* ------------------------------------------- notion_sync.py: identity
IsSpace(c) == c \in {" ", "\t"}

Lower(c) == CASE c = "A" -> "a" [] c = "B" -> "b" [] c = "C" -> "c" [] OTHER -> c

RECURSIVE LStrip(_)
LStrip(s) == IF s # <<>> /\ IsSpace(Head(s)) THEN LStrip(Tail(s)) ELSE s

RECURSIVE RStrip(_)
RStrip(s) == IF s # <<>> /\ IsSpace(s[Len(s)]) THEN RStrip(SubSeq(s, 1, Len(s) - 1)) ELSE s

\* Variant of Strip: only leading whitespace removed (lstrip)
StripLeading(s) == LStrip(s)

\* str.strip()
Strip(s) == RStrip(LStrip(s))

\* str.lower()
LowerStr(s) == [i \in 1..Len(s) |-> Lower(s[i])]

\* hashlib.sha256(...).hexdigest(), injective
Sha256(s) == [sha256 |-> s]

\* Variant of compute_external_id: all whitespace of the title removed, not only the
\* surrounding whitespace ("".join(title.split()) for title.strip())
compute_external_id_no_whitespace(meeting_url, title) ==
  Sha256(meeting_url \o <<"|">> \o LowerStr(SelectSeq(title, LAMBDA c : ~IsSpace(c))))

compute_external_id(meeting_url, title) ==
  Sha256(meeting_url \o <<"|">> \o LowerStr(Strip(title)))

\* ------------------------------------------------------------- state
VARIABLES
  env,          \* process environment: NOTION_TOKEN, NOTION_BACKLOG_DB, NOTION_DECISIONS_DB
  schema,       \* remote: property names each Notion database defines
  pages,        \* remote: the pages, in creation order; a page is [db, props]
  sync_status,  \* sqlite table sync_status: analysis_id -> [meeting_url, sync_result]
  pc,           \* per request slot: position in sync_notion
  request,      \* per slot: NotionSyncRequest [analysis, analysis_id, meeting_url]
  local,        \* per slot: locals of sync_to_notion / upsert_* (idx, existing_page_id, results)
  response,     \* per slot: what sync_notion returned [status, body]
  started,      \* number of requests received so far
  faults,       \* number of remote calls that failed for reasons of the network so far
  hist,         \* per slot, history only: what the request in the slot has done so far
  lastDone,     \* history only: slot of the request that completed last, 0 after a restart
  everOk,       \* history only: per analysis id, the SyncResult of the latest completion
                \*   without errors (0- or 1-element sequence)
  standing,     \* history only: as everOk, but emptied when the row of the id is deleted
                \*   by cleanup or replaced by a result with errors
  probe,        \* arguments and results of a function applied on its own, outside any
                \*   request (NoProbe while the service runs)
  analysis_results,  \* sqlite table analysis_results: the rows, in order of created_at
  analyzed      \* history only: analyze requests and ids so far, and the last request

vars == <<env, schema, pages, sync_status, pc, request, local, response, started, faults,
          hist, lastDone, everOk, standing, probe, analysis_results, analyzed>>

analyze_vars == <<analysis_results, analyzed>>

\* Standard property names of the two Notion databases
BacklogProps == {"Name", "External ID", "Status", "Priority", "Due", "Notes", "Source"}

DecisionProps == {"Name", "External ID", "Owner", "Rationale", "Effective Date", "Source"}

AllProps == BacklogProps \cup DecisionProps

StdEnv == [token |-> TRUE, backlog_db |-> "db1", decisions_db |-> "db2"]

FullSchema == [d \in Dbs |-> AllProps]

\* Deployments: the process environment and the schemas of the user's databases
Deployments ==
  { [env |-> StdEnv, schema |-> FullSchema],
    [env |-> StdEnv, schema |-> [d \in Dbs |-> AllProps \ {"Priority"}]],
    [env |-> [StdEnv EXCEPT !.decisions_db = "db1"], schema |-> FullSchema],
    [env |-> [StdEnv EXCEPT !.backlog_db = ""], schema |-> FullSchema],
    [env |-> [StdEnv EXCEPT !.decisions_db = ""], schema |-> FullSchema],
    [env |-> [StdEnv EXCEPT !.token = FALSE], schema |-> FullSchema] }

EmptyResults ==
  [created |-> [actions |-> 0, decisions |-> 0],
   updated |-> [actions |-> 0, decisions |-> 0],
   errors  |-> <<>>]

NoRequest == [analysis |-> [actions |-> <<>>, decisions |-> <<>>], analysis_id |-> "", meeting_url |-> <<>>]

NoLocal == [idx |-> 0, existing_page_id |-> 0, results |-> EmptyResults]

NoResponse == [status |-> 0, body |-> EmptyResults]

\* cached: the sync_status row the cache check read; prior / stood: everOk / standing of
\* the id on arrival; pred: the previous request, when it completed with nothing in flight
\* and sent the same analysis and meeting_url; outcomes: per item "created", "updated"
\* or "raised" and the page written; qfailed: items whose identity query failed;
\* seen: number of remote pages when the identity query of the item in hand ran
\* (0 once its write is issued); calls: the remote calls issued so far, in order,
\* as <<operation, kind, title>>
NoHist == [cached |-> <<>>, hit |-> FALSE, invoked |-> FALSE, reads |-> 0, writes |-> 0,
           qfailed |-> {}, outcomes |-> <<>>, prior |-> <<>>, stood |-> <<>>, pred |-> <<>>,
           seen |-> 0, calls |-> <<>>]

NoProbe == [done |-> FALSE]

\* No analyze request yet: `reqs` requests received, `ids` analysis ids issued
NoAnalyzed == [reqs |-> 0, ids |-> 0, last |-> <<>>]

Init ==
  /\ probe = NoProbe
  /\ analysis_results = <<>>
  /\ analyzed = NoAnalyzed
  /\ \E d \in Deployments : env = d.env /\ schema = d.schema
  /\ pages = <<>>
  /\ sync_status = <<>>
  /\ pc = [r \in Slots |-> "idle"]
  /\ request = [r \in Slots |-> NoRequest]
  /\ local = [r \in Slots |-> NoLocal]
  /\ response = [r \in Slots |-> NoResponse]
  /\ started = 0
  /\ faults = 0
  /\ hist = [r \in Slots |-> NoHist]
  /\ lastDone = 0
  /\ everOk = [a \in AnalysisIds |-> <<>>]
  /\ standing = [a \in AnalysisIds |-> <<>>]

\* ------------------------------------------------ database.py: SyncStorage
\* sync_status is a function from the stored analysis ids to rows
StoredIds == DOMAIN sync_status

\* Variant of get_sync_status: the SELECT fails (a misspelt column), the exception is
\* swallowed by the except clause and None is returned
get_sync_status_swallowed(analysis_id) == <<>>

\* SyncStorage.get_sync_status: the row as a 0- or 1-element sequence
get_sync_status(analysis_id) ==
  IF analysis_id \in StoredIds THEN <<sync_status[analysis_id]>> ELSE <<>>

\* INSERT OR REPLACE INTO sync_status
SaveRow(table, analysis_id, meeting_url, sync_result) ==
  [a \in DOMAIN table \cup {analysis_id} |->
     IF a = analysis_id THEN [meeting_url |-> meeting_url, sync_result |-> sync_result]
     ELSE table[a]]

\* DELETE FROM sync_status WHERE analysis_id IN (old analyses)
DeleteRows(table, old) == [a \in DOMAIN table \ old |-> table[a]]

\* Variant of CacheHit: the test on the error list inverted
CacheHitOnErrors(existing_sync) ==
  existing_sync # <<>> /\ existing_sync[1].sync_result.errors # <<>>

\* Variant of CacheHit: any stored row counts, the error list is not looked at
CacheHitAnyRow(existing_sync) == existing_sync # <<>>

\* app.py 252: existing_sync and not existing_sync["sync_result"].get("errors")
CacheHit(existing_sync) ==
  existing_sync # <<>> /\ existing_sync[1].sync_result.errors = <<>>

\* ------------------------------------------------ notion_sync.py: upserts
NumItems(p) == Len(p.actions) + Len(p.decisions)

\* Variant of ItemAt: the two loops of sync_to_notion in the other order
ItemAtDecisionsFirst(p, k) ==
  IF k <= Len(p.decisions)
  THEN [kind |-> "Decision", item |-> p.decisions[k]]
  ELSE [kind |-> "Action", item |-> p.actions[k - Len(p.decisions)]]

\* The k-th item sync_to_notion processes: all actions, then all decisions
ItemAt(p, k) ==
  IF k <= Len(p.actions)
  THEN [kind |-> "Action", item |-> p.actions[k]]
  ELSE [kind |-> "Decision", item |-> p.decisions[k - Len(p.actions)]]

\* Target database of the k-th item
DbOf(e, p, k) == IF k <= Len(p.actions) THEN e.backlog_db ELSE e.decisions_db

\* upsert_action_item 61-102: the property set
ActionProperties(action, meeting_url) ==
  LET names == {"Name", "External ID", "Status"}
               \cup (IF action.priority # "" THEN {"Priority"} ELSE {})
               \cup (IF action.due # "" THEN {"Due"} ELSE {})
               \cup (IF action.notes # "" THEN {"Notes"} ELSE {})
               \cup (IF meeting_url # <<>> THEN {"Source"} ELSE {})
  IN [n \in names |->
        CASE n = "Name" -> action.title
          [] n = "External ID" -> compute_external_id(meeting_url, action.title)
          [] n = "Status" -> "Todo"
          [] n = "Priority" -> action.priority
          [] n = "Due" -> action.due
          [] n = "Notes" -> action.notes
          [] n = "Source" -> meeting_url]

\* upsert_decision 139-178: the property set
DecisionProperties(decision, meeting_url) ==
  LET names == {"Name", "External ID"}
               \cup (IF decision.owner # "" THEN {"Owner"} ELSE {})
               \cup (IF decision.rationale # "" THEN {"Rationale"} ELSE {})
               \cup (IF decision.effective_date # "" THEN {"Effective Date"} ELSE {})
               \cup (IF meeting_url # <<>> THEN {"Source"} ELSE {})
  IN [n \in names |->
        CASE n = "Name" -> decision.title
          [] n = "External ID" -> compute_external_id(meeting_url, decision.title)
          [] n = "Owner" -> decision.owner
          [] n = "Rationale" -> decision.rationale
          [] n = "Effective Date" -> decision.effective_date
          [] n = "Source" -> meeting_url]

\* Variant of PropertiesOf: the External ID is derived without the meeting_url
PropertiesOfNoSource(it, meeting_url) ==
  LET properties == IF it.kind = "Action" THEN ActionProperties(it.item, meeting_url)
                    ELSE DecisionProperties(it.item, meeting_url)
  IN [properties EXCEPT !["External ID"] = compute_external_id(<<>>, it.item.title)]

PropertiesOf(it, meeting_url) ==
  IF it.kind = "Action" THEN ActionProperties(it.item, meeting_url)
  ELSE DecisionProperties(it.item, meeting_url)

\* Variant of QueryResults: the query goes to the other database
QueryResultsOtherDatabase(database_id, external_id) ==
  { i \in 1..Len(pages) : pages[i].db # database_id
                           /\ pages[i].props["External ID"] = external_id }

\* Variant of QueryResults: the filter tests "does_not_equal" where it should test "equals"
QueryResultsDoesNotEqual(database_id, external_id) ==
  { i \in 1..Len(pages) : pages[i].db = database_id
                           /\ pages[i].props["External ID"] # external_id }

\* notion.databases.query with the External ID filter: ids of the matching pages
QueryResults(database_id, external_id) ==
  { i \in 1..Len(pages) : pages[i].db = database_id
                           /\ pages[i].props["External ID"] = external_id }

\* Notion rejects a write that names a property the database does not define
SchemaAccepts(database_id, properties) == DOMAIN properties \subseteq schema[database_id]

\* What a remote write can answer: it may be unreachable whatever is sent
WriteAnswers(database_id, properties) ==
  (IF faults < MaxFaults THEN {"unreachable"} ELSE {})
  \cup (IF SchemaAccepts(database_id, properties) THEN {"ok"} ELSE {"validation_error"})

\* Variant of PagesCreate: the create is sent again after its answer was lost
PagesCreateTwice(database_id, properties) ==
  Append(Append(pages, [db |-> database_id, props |-> properties]),
         [db |-> database_id, props |-> properties])

\* notion.pages.create
PagesCreate(database_id, properties) == Append(pages, [db |-> database_id, props |-> properties])

\* Variant of PagesUpdate: a page is added instead of the given one overwritten
PagesUpdateAppends(page_id, properties) ==
  Append(pages, [db |-> pages[page_id].db, props |-> properties])

\* Variant of PagesUpdate: the update sends archived: true, which removes the page
PagesUpdateArchives(page_id, properties) ==
  SubSeq(pages, 1, page_id - 1) \o SubSeq(pages, page_id + 1, Len(pages))

\* notion.pages.update: the given properties are overwritten, the others kept
PagesUpdate(page_id, properties) ==
  [pages EXCEPT ![page_id].props =
     [n \in DOMAIN @ \cup DOMAIN properties |->
        IF n \in DOMAIN properties THEN properties[n] ELSE @[n]]]

\* upsert_* 116-125: the exception re-raised with the database id in its text
UpsertError(database_id, e) == [database_id |-> database_id, error |-> e]

\* Variant of ErrorString: the decisions loop copies the "Action" label
ErrorStringActionLabel(kind, title, e) == [kind |-> "Action", title |-> title, message |-> e]

\* sync_to_notion 244/255: f"<Kind> '<title>': <message>"
ErrorString(kind, title, e) == [kind |-> kind, title |-> title, message |-> e]

\* Variant of Count: the else of 241 / 252 is lost, a created item is counted twice
CountBoth(results, kind, action) ==
  LET cat == IF kind = "Action" THEN "actions" ELSE "decisions"
  IN IF action = "created"
     THEN [results EXCEPT !.created[cat] = @ + 1, !.updated[cat] = @ + 1]
     ELSE [results EXCEPT !.updated[cat] = @ + 1]

\* sync_to_notion 239-242 / 250-253: count one successful upsert
Count(results, kind, action) ==
  LET cat == IF kind = "Action" THEN "actions" ELSE "decisions"
  IN IF action = "created"
     THEN [results EXCEPT !.created[cat] = @ + 1]
     ELSE [results EXCEPT !.updated[cat] = @ + 1]

\* Variant of AfterItem: the first upsert that raises ends the batch
AfterItemAbortOnError(p, k, raised) == IF raised \/ k = NumItems(p) THEN "save" ELSE "query"

\* Variant of AfterItem: the first upsert that raises abandons the request
AfterItemCancelsOnError(p, k, raised) ==
  IF raised THEN "idle" ELSE IF k = NumItems(p) THEN "save" ELSE "query"

\* sync_to_notion 236-255: the for loops go on to the next item whether or not the
\* upsert of item k raised; after the last item the result is returned
AfterItem(p, k, raised) == IF k = NumItems(p) THEN "save" ELSE "query"

\* Variant of Precondition: the check on the database ids fails only when both are missing
PreconditionBothMissing(e, p) ==
  IF ~e.token THEN "ValueError"
  ELSE IF e.backlog_db = "" /\ e.decisions_db = "" THEN "ValueError"
  ELSE IF ~AnalysisValid(p) THEN "ValidationError"
  ELSE ""

\* Variant of Precondition: init_notion builds the client without testing the token
PreconditionTokenUnchecked(e, p) ==
  IF e.backlog_db = "" \/ e.decisions_db = "" THEN "ValueError"
  ELSE IF ~AnalysisValid(p) THEN "ValidationError"
  ELSE ""

\* ------------------------------------------------------------- actions
\* sync_to_notion 218-227: what the precondition checks raise, "" if nothing
Precondition(e, p) ==
  IF ~e.token THEN "ValueError"                                   \* init_notion 15-16
  ELSE IF e.backlog_db = "" \/ e.decisions_db = "" THEN "ValueError"  \* 223-224
  ELSE IF ~AnalysisValid(p) THEN "ValidationError"                \* 227
  ELSE ""

\* History: the request of slot r completes with `status` and `body`;
\* `saved` when the body was written to sync_status
Complete(r, aid, status, body, saved) ==
  /\ lastDone' = r
  /\ everOk' = IF aid # "" /\ status = 200 /\ body.errors = <<>>
               THEN [everOk EXCEPT ![aid] = <<body>>] ELSE everOk
  /\ standing' = IF aid # "" /\ status = 200 /\ body.errors = <<>>
                 THEN [standing EXCEPT ![aid] = <<body>>]
                 ELSE IF aid # "" /\ saved THEN [standing EXCEPT ![aid] = <<>>]
                 ELSE standing

\* History: the previous request as the next one sees it, if it sent the same
\* analysis, analysis_id and meeting_url and nothing else is in flight
Pred(p, aid, url) ==
  IF lastDone # 0 /\ (\A q \in Slots : pc[q] \in {"idle", "done"})
     /\ request[lastDone].analysis = p /\ request[lastDone].meeting_url = url
     /\ request[lastDone].analysis_id = aid
  THEN <<[status |-> response[lastDone].status, body |-> response[lastDone].body,
          hit |-> hist[lastDone].hit, outcomes |-> hist[lastDone].outcomes]>>
  ELSE <<>>

\* A slot is free when no request is being handled in it
Free(r) == pc[r] \in {"idle", "done"}

\* POST /notion/sync arrives: app.py 248-257 (the cache check) and, on a miss,
\* sync_to_notion 218-233 (the precondition checks and the empty result).
\* Nothing another request can observe happens between the two.
sync_notion(r, url, p) ==
  /\ Free(r)
  /\ \A q \in Slots : q < r => ~Free(q)           \* slots are taken in order
  /\ started < MaxReqs
  /\ started' = started + 1
  /\ \E aid \in AnalysisIds \cup {""} :
       LET existing_sync == IF aid # "" THEN get_sync_status(aid) ELSE <<>>
           hit == aid # "" /\ CacheHit(existing_sync)
           raised == Precondition(env, p)
       IN /\ request' = [request EXCEPT ![r] =
                          [analysis |-> p, analysis_id |-> aid, meeting_url |-> url]]
          /\ hist' = [hist EXCEPT ![r] =
                       [NoHist EXCEPT !.cached = existing_sync, !.hit = hit, !.invoked = ~hit,
                                      !.prior = IF aid # "" THEN everOk[aid] ELSE <<>>,
                                      !.stood = IF aid # "" THEN standing[aid] ELSE <<>>,
                                      !.pred = Pred(p, aid, url)]]
          /\ local' = [local EXCEPT ![r] =
                        IF hit \/ raised # "" THEN NoLocal ELSE [NoLocal EXCEPT !.idx = 1]]
          /\ IF hit
             THEN \* return existing_sync["sync_result"]
                  /\ pc' = [pc EXCEPT ![r] = "done"]
                  /\ response' = [response EXCEPT ![r] =
                                    [status |-> 200, body |-> existing_sync[1].sync_result]]
                  /\ Complete(r, aid, 200, existing_sync[1].sync_result, FALSE)
             ELSE IF raised # ""
             THEN \* ValueError (pydantic's ValidationError is one) -> HTTPException(400)
                  /\ pc' = [pc EXCEPT ![r] = "done"]
                  /\ response' = [response EXCEPT ![r] = [status |-> 400, body |-> EmptyResults]]
                  /\ Complete(r, aid, 400, EmptyResults, FALSE)
             ELSE /\ pc' = [pc EXCEPT ![r] = IF NumItems(p) = 0 THEN "save" ELSE "query"]
                  /\ response' = [response EXCEPT ![r] = NoResponse]
                  /\ UNCHANGED <<lastDone, everOk, standing>>
  /\ UNCHANGED analyze_vars
  /\ UNCHANGED <<probe, env, schema, pages, sync_status, faults>>

\* Variant of find_existing_page: no try/except, so a failed query raises into the
\* upsert's handler and the item ends in errors without a write
find_existing_page_raises(r) ==
  /\ pc[r] = "query"
  /\ LET p == request[r].analysis
         k == local[r].idx
         it == ItemAt(p, k)
         database_id == DbOf(env, p, k)
         external_id == compute_external_id(request[r].meeting_url, it.item.title)
         found == QueryResults(database_id, external_id)
     IN \/ /\ faults < MaxFaults
           /\ faults' = faults + 1
           /\ local' = [local EXCEPT
                ![r].results.errors =
                   Append(@, ErrorString(it.kind, it.item.title,
                                         UpsertError(database_id, "query_failed"))),
                ![r].idx = k + 1]
           /\ hist' = [hist EXCEPT ![r].reads = @ + 1, ![r].qfailed = @ \cup {k},
                         ![r].outcomes = Append(@, [action |-> "raised", page_id |-> 0])]
           /\ pc' = [pc EXCEPT ![r] = AfterItem(p, k, TRUE)]
        \/ /\ \E id \in (IF found = {} THEN {0} ELSE found) :
                local' = [local EXCEPT ![r].existing_page_id = id]
           /\ hist' = [hist EXCEPT ![r].reads = @ + 1]
           /\ pc' = [pc EXCEPT ![r] = "write"]
           /\ UNCHANGED faults
  /\ UNCHANGED analyze_vars
  /\ UNCHANGED <<probe, env, schema, pages, sync_status, request, response, started,
                 lastDone, everOk, standing>>

\* find_existing_page 26-47 for the current item
find_existing_page(r) ==
  /\ pc[r] = "query"
  /\ LET p == request[r].analysis
         k == local[r].idx
         it == ItemAt(p, k)
         database_id == DbOf(env, p, k)
         external_id == compute_external_id(request[r].meeting_url, it.item.title)
         found == QueryResults(database_id, external_id)
     IN \/ \* the query raises: except Exception: return None
           /\ faults < MaxFaults
           /\ faults' = faults + 1
           /\ local' = [local EXCEPT ![r].existing_page_id = 0]
           /\ hist' = [hist EXCEPT ![r].reads = @ + 1, ![r].qfailed = @ \cup {k},
                         ![r].seen = Len(pages),
                         ![r].calls = Append(@, <<"query", it.kind, it.item.title>>)]
        \/ \* response["results"][0]["id"], or None
           /\ \E id \in (IF found = {} THEN {0} ELSE found) :
                local' = [local EXCEPT ![r].existing_page_id = id]
           /\ hist' = [hist EXCEPT ![r].reads = @ + 1, ![r].seen = Len(pages),
                         ![r].calls = Append(@, <<"query", it.kind, it.item.title>>)]
           /\ UNCHANGED faults
  /\ pc' = [pc EXCEPT ![r] = "write"]
  /\ UNCHANGED analyze_vars
  /\ UNCHANGED <<probe, env, schema, pages, sync_status, request, response, started,
                 lastDone, everOk, standing>>

\* upsert_* 61-125 after the query, and the loop body of sync_to_notion 236-255
upsert(r) ==
  /\ pc[r] = "write"
  /\ LET p == request[r].analysis
         k == local[r].idx
         it == ItemAt(p, k)
         database_id == DbOf(env, p, k)
         properties == PropertiesOf(it, request[r].meeting_url)
         existing_page_id == local[r].existing_page_id
         target == IF existing_page_id # 0 THEN pages[existing_page_id].db ELSE database_id
     IN \E ans \in WriteAnswers(target, properties) :
          /\ faults' = IF ans = "unreachable" THEN faults + 1 ELSE faults
          /\ IF ans = "ok"
             THEN IF existing_page_id # 0
                  THEN /\ pages' = PagesUpdate(existing_page_id, properties)
                       /\ local' = [local EXCEPT ![r].results = Count(@, it.kind, "updated"),
                                                  ![r].idx = k + 1]
                       /\ hist' = [hist EXCEPT ![r].writes = @ + 1, ![r].seen = 0,
                                     ![r].calls = Append(@, <<"write", it.kind, it.item.title>>),
                                     ![r].outcomes = Append(@, [action |-> "updated",
                                                                page_id |-> existing_page_id])]
                  ELSE /\ pages' = PagesCreate(database_id, properties)
                       /\ local' = [local EXCEPT ![r].results = Count(@, it.kind, "created"),
                                                  ![r].idx = k + 1]
                       /\ hist' = [hist EXCEPT ![r].writes = @ + 1, ![r].seen = 0,
                                     ![r].calls = Append(@, <<"write", it.kind, it.item.title>>),
                                     ![r].outcomes = Append(@, [action |-> "created",
                                                                page_id |-> Len(pages) + 1])]
             ELSE /\ UNCHANGED pages
                  /\ local' = [local EXCEPT
                       ![r].results.errors =
                          Append(@, ErrorString(it.kind, it.item.title,
                                                UpsertError(database_id, ans))),
                       ![r].idx = k + 1]
                  /\ hist' = [hist EXCEPT ![r].writes = @ + 1, ![r].seen = 0,
                                ![r].calls = Append(@, <<"write", it.kind, it.item.title>>),
                                ![r].outcomes = Append(@, [action |-> "raised", page_id |-> 0])]
          /\ pc' = [pc EXCEPT ![r] = AfterItem(p, k, ans # "ok")]
  /\ UNCHANGED analyze_vars
  /\ UNCHANGED <<probe, env, schema, sync_status, request, response, started,
                 lastDone, everOk, standing>>

\* Variant of save_sync_result: the result is returned but never stored
save_sync_result_not_stored(r) ==
  /\ pc[r] = "save"
  /\ response' = [response EXCEPT ![r] = [status |-> 200, body |-> local[r].results]]
  /\ pc' = [pc EXCEPT ![r] = "done"]
  /\ Complete(r, request[r].analysis_id, 200, local[r].results, request[r].analysis_id # "")
  /\ UNCHANGED analyze_vars
  /\ UNCHANGED <<probe, env, schema, pages, sync_status, request, local, started, faults, hist>>

\* app.py 259-267: save the result under the analysis id and return it
save_sync_result(r) ==
  /\ pc[r] = "save"
  /\ sync_status' = IF request[r].analysis_id # ""
                    THEN SaveRow(sync_status, request[r].analysis_id,
                                 request[r].meeting_url, local[r].results)
                    ELSE sync_status
  /\ response' = [response EXCEPT ![r] = [status |-> 200, body |-> local[r].results]]
  /\ pc' = [pc EXCEPT ![r] = "done"]
  /\ Complete(r, request[r].analysis_id, 200, local[r].results, request[r].analysis_id # "")
  /\ UNCHANGED analyze_vars
  /\ UNCHANGED <<probe, env, schema, pages, request, local, started, faults, hist>>

\* app.py 44-55 lifespan: a (re)start of the service runs cleanup_old_data(30);
\* `old` are the analyses created more than 30 days ago
cleanup_old_data ==
  /\ \A r \in Slots : Free(r)
  /\ \E old \in SUBSET AnalysisIds, n \in 0..Len(analysis_results) :
       /\ old \cap StoredIds # {} \/ n > 0
       /\ sync_status' = DeleteRows(sync_status, old)
       /\ standing' = [a \in AnalysisIds |-> IF a \in old THEN <<>> ELSE standing[a]]
       \* 277-280: the rows created before the cutoff are the n oldest
       /\ analysis_results' = SubSeq(analysis_results, n + 1, Len(analysis_results))
  /\ lastDone' = 0
  /\ UNCHANGED analyzed
  /\ UNCHANGED <<probe, env, schema, pages, pc, request, local, response, started, faults, hist, everOk>>

Next ==
  \/ \E r \in Slots, url \in ConcurrentUrls, p \in Payloads : sync_notion(r, url, p)
  \/ \E r \in Slots : find_existing_page(r)
  \/ \E r \in Slots : upsert(r)
  \/ \E r \in Slots : save_sync_result(r)
  \/ cleanup_old_data

Spec == Init /\ [][Next]_vars

\* Requests handled one after another: a request arrives only when none is in flight
SeqNext ==
  \/ \E r \in Slots, url \in Urls, p \in SeqPayloads :
       (\A q \in Slots : Free(q)) /\ sync_notion(r, url, p)
  \/ \E r \in Slots : find_existing_page(r)
  \/ \E r \in Slots : upsert(r)
  \/ \E r \in Slots : save_sync_result(r)
  \/ cleanup_old_data

SpecSeq == Init /\ [][SeqNext]_vars

\* Records the remote store may hold before the request arrives
LivePages ==
  LET a == [db |-> "db1", props |-> ActionProperties(ActionAb, <<"u">>)]
      d == [db |-> "db2", props |-> DecisionProperties(DecisionAb, <<"u">>)]
  IN {<<>>, <<a>>, <<d>>, <<a, d>>}

\* One request followed from its arrival to its return, whatever the remote store
\* holds when it arrives
LiveInit ==
  /\ probe = NoProbe
  /\ analysis_results = <<>>
  /\ analyzed = NoAnalyzed
  /\ \E d \in Deployments : env = d.env /\ schema = d.schema
  /\ pages \in LivePages
  /\ sync_status = <<>>
  /\ pc = [r \in Slots |-> "idle"]
  /\ request = [r \in Slots |-> NoRequest]
  /\ local = [r \in Slots |-> NoLocal]
  /\ response = [r \in Slots |-> NoResponse]
  /\ started = 0
  /\ faults = 0
  /\ hist = [r \in Slots |-> NoHist]
  /\ lastDone = 0
  /\ everOk = [a \in AnalysisIds |-> <<>>]
  /\ standing = [a \in AnalysisIds |-> <<>>]

LiveNext ==
  \/ \E r \in Slots, url \in Urls, p \in SeqPayloads : started = 0 /\ sync_notion(r, url, p)
  \/ \E r \in Slots : find_existing_page(r)
  \/ \E r \in Slots : upsert(r)
  \/ \E r \in Slots : save_sync_result(r)

\* Every remote call returns or raises and the handler, which is synchronous code
\* without any await, goes on to its next statement: a request in hand always takes
\* its next step. Nothing obliges the request to arrive.
SpecLive ==
  /\ LiveInit /\ [][LiveNext]_vars
  /\ \A r \in Slots : /\ WF_vars(find_existing_page(r))
                       /\ WF_vars(upsert(r))
                       /\ WF_vars(save_sync_result(r))

\* ------------------------------------------- compute_external_id on its own
\* The service at rest in the standard deployment
AtRest ==
  /\ env = StdEnv /\ schema = FullSchema
  /\ analysis_results = <<>>
  /\ analyzed = NoAnalyzed
  /\ pages = <<>>
  /\ sync_status = <<>>
  /\ pc = [r \in Slots |-> "idle"]
  /\ request = [r \in Slots |-> NoRequest]
  /\ local = [r \in Slots |-> NoLocal]
  /\ response = [r \in Slots |-> NoResponse]
  /\ started = 0
  /\ faults = 0
  /\ hist = [r \in Slots |-> NoHist]
  /\ lastDone = 0
  /\ everOk = [a \in AnalysisIds |-> <<>>]
  /\ standing = [a \in AnalysisIds |-> <<>>]

\* Two (meeting_url, title) pairs to derive the identity of
IdInit ==
  /\ probe \in [done : {FALSE}, url1 : IdUrls, title1 : Titles, url2 : IdUrls, title2 : Titles]
  /\ AtRest

\* compute_external_id applied to both pairs
derive_identity ==
  /\ ~probe.done
  /\ probe' = [done |-> TRUE,
               url1 |-> probe.url1, title1 |-> probe.title1,
               url2 |-> probe.url2, title2 |-> probe.title2,
               id1 |-> compute_external_id(probe.url1, probe.title1),
               id2 |-> compute_external_id(probe.url2, probe.title2)]
  /\ UNCHANGED analyze_vars
  /\ UNCHANGED <<env, schema, pages, sync_status, pc, request, local, response, started,
                 faults, hist, lastDone, everOk, standing>>

IdNext == derive_identity

SpecId == IdInit /\ [][IdNext]_vars

\* ------------------------------------------- sync_to_notion as a function
\* One whole sync computed from a remote state, a payload and a fixed pattern of
\* failing remote calls, to compare the order of its two loops with the other order.

\* Variant of QueryResultsIn: the query is not confined to the database it is sent to
QueryResultsInAnyDatabase(pgs, database_id, external_id) ==
  { i \in 1..Len(pgs) : pgs[i].props["External ID"] = external_id }

\* notion.databases.query with the External ID filter, over the page list pgs
QueryResultsIn(pgs, database_id, external_id) ==
  { i \in 1..Len(pgs) : pgs[i].db = database_id
                          /\ pgs[i].props["External ID"] = external_id }

\* upsert_action_item / upsert_decision over the page list pgs; `call` is the item, its
\* database and whether its identity query (qfail) and its write (wfail) are
\* unreachable. The result is the page list afterwards and "created", "updated" or
\* "raised" with the exception.
upsert_item(pgs, call, meeting_url) ==
  LET external_id == compute_external_id(meeting_url, call.it.item.title)
      properties == PropertiesOf(call.it, meeting_url)
      found == IF call.qfail THEN {} ELSE QueryResultsIn(pgs, call.db, external_id)
      existing_page_id == IF found = {} THEN 0
                          ELSE CHOOSE i \in found : \A j \in found : i <= j
      target == IF existing_page_id # 0 THEN pgs[existing_page_id].db ELSE call.db
      ans == IF call.wfail THEN "unreachable"
             ELSE IF DOMAIN properties \subseteq schema[target] THEN "ok"
             ELSE "validation_error"
  IN IF ans # "ok"
     THEN [pages |-> pgs, action |-> "raised", e |-> UpsertError(call.db, ans)]
     ELSE IF existing_page_id # 0
     THEN [pages |-> [pgs EXCEPT ![existing_page_id].props =
                        [n \in DOMAIN @ \cup DOMAIN properties |->
                           IF n \in DOMAIN properties THEN properties[n] ELSE @[n]]],
           action |-> "updated", e |-> UpsertError(call.db, "")]
     ELSE [pages |-> Append(pgs, [db |-> call.db, props |-> properties]),
           action |-> "created", e |-> UpsertError(call.db, "")]

\* The loops of sync_to_notion 236-255 over the upserts `calls`, in that order
RECURSIVE run_upserts(_, _, _, _)
run_upserts(calls, pgs, results, meeting_url) ==
  IF calls = <<>> THEN results
  ELSE LET call == Head(calls)
           u == upsert_item(pgs, call, meeting_url)
       IN run_upserts(Tail(calls), u.pages,
                      IF u.action = "raised"
                      THEN [results EXCEPT !.errors =
                              Append(@, ErrorString(call.it.kind, call.it.item.title, u.e))]
                      ELSE Count(results, call.it.kind, u.action),
                      meeting_url)

\* The upserts of the actions loop and of the decisions loop, with the failures
\* the pattern `fail` fixes for each item
ActionCalls(p, fail) ==
  [i \in 1..Len(p.actions) |->
     [it |-> [kind |-> "Action", item |-> p.actions[i]], db |-> env.backlog_db,
      qfail |-> i \in fail.aq, wfail |-> i \in fail.aw]]

DecisionCalls(p, fail) ==
  [i \in 1..Len(p.decisions) |->
     [it |-> [kind |-> "Decision", item |-> p.decisions[i]], db |-> env.decisions_db,
      qfail |-> i \in fail.dq, wfail |-> i \in fail.dw]]

\* Payloads, remote states and failure patterns of the comparison
OrderUrl == <<"u">>

OrderPayloads ==
  [actions : {<<>>, <<ActionAb>>, <<ActionAb, ActionAbSpaced>>},
   decisions : {<<>>, <<DecisionAb>>, <<DecisionAb, DecisionAb>>}]

OrderPages ==
  LET a == [db |-> "db1", props |-> ActionProperties(ActionAb, OrderUrl)]
      d == [db |-> "db2", props |-> DecisionProperties(DecisionAb, OrderUrl)]
  IN {<<>>, <<a>>, <<d>>, <<a, d>>}

OrderFailures ==
  [aq : SUBSET {1, 2}, aw : SUBSET {1, 2}, dq : SUBSET {1, 2}, dw : SUBSET {1, 2}]

OrderInit ==
  /\ probe \in [done : {FALSE}, analysis : OrderPayloads, fail : OrderFailures]
  /\ \E d \in Deployments :
       /\ Precondition(d.env, [actions |-> <<>>, decisions |-> <<>>]) = ""
       /\ env = d.env /\ schema = d.schema
  /\ pages \in OrderPages
  /\ analysis_results = <<>>
  /\ analyzed = NoAnalyzed
  /\ sync_status = <<>>
  /\ pc = [r \in Slots |-> "idle"]
  /\ request = [r \in Slots |-> NoRequest]
  /\ local = [r \in Slots |-> NoLocal]
  /\ response = [r \in Slots |-> NoResponse]
  /\ started = 0
  /\ faults = 0
  /\ hist = [r \in Slots |-> NoHist]
  /\ lastDone = 0
  /\ everOk = [a \in AnalysisIds |-> <<>>]
  /\ standing = [a \in AnalysisIds |-> <<>>]

\* sync_to_notion from the remote state `pages`, once with its loops as written
\* (actions, then decisions) and once with the loops exchanged
sync_in_both_orders ==
  /\ ~probe.done
  /\ LET a == ActionCalls(probe.analysis, probe.fail)
         d == DecisionCalls(probe.analysis, probe.fail)
     IN probe' = [done |-> TRUE, analysis |-> probe.analysis, fail |-> probe.fail,
                  actions_first |-> run_upserts(a \o d, pages, EmptyResults, OrderUrl),
                  decisions_first |-> run_upserts(d \o a, pages, EmptyResults, OrderUrl)]
  /\ UNCHANGED analyze_vars
  /\ UNCHANGED <<env, schema, pages, sync_status, pc, request, local, response, started,
                 faults, hist, lastDone, everOk, standing>>

OrderNext == sync_in_both_orders

SpecOrder == OrderInit /\ [][OrderNext]_vars

\* ------------------------------------------- the property set on its own
\* Items with every combination of optional fields set and unset
PropsTitles == {<<"A", "b">>, <<"c">>}

PropsItems ==
  { [kind |-> "Action", item |-> a] :
      a \in [title : PropsTitles, assignee : {"", "al"}, due : {"", "2025-01-01"},
             priority : {"", "P1"}, notes : {"", "n"}] }
  \cup
  { [kind |-> "Decision", item |-> d] :
      d \in [title : PropsTitles, owner : {"", "al"}, rationale : {"", "r"},
             effective_date : {"", "2025-01-01"}] }

PropsInit ==
  /\ probe \in [done : {FALSE}, it : PropsItems, meeting_url : Urls]
  /\ AtRest

\* upsert_action_item 61-102 / upsert_decision 139-178 applied to the item
build_properties ==
  /\ ~probe.done
  /\ probe' = [done |-> TRUE, it |-> probe.it, meeting_url |-> probe.meeting_url,
               properties |-> PropertiesOf(probe.it, probe.meeting_url)]
  /\ UNCHANGED analyze_vars
  /\ UNCHANGED <<env, schema, pages, sync_status, pc, request, local, response, started,
                 faults, hist, lastDone, everOk, standing>>

PropsNext == build_properties

SpecProps == PropsInit /\ [][PropsNext]_vars

\* ------------------------------------------- app.py: POST /analyze
\* Query parameters of analyze requests. Transcript "t1" has been ingested and "t0"
\* has not; both dates match the pattern of the date parameter, the second names no
\* day of the calendar.
StoredTranscripts == {"t1"}
TranscriptIds == {"t0", "t1"}
Teams == {"core", "web"}
Products == {"app"}
Dates == {[year |-> 2025, month |-> 1, day |-> 1], [year |-> 2025, month |-> 13, day |-> 1]}

\* What analyze_transcript can return for a transcript: the model's answer varies
Extractions ==
  {[decisions |-> <<>>, actions |-> <<ActionAb>>],
   [decisions |-> <<DecisionAb>>, actions |-> <<>>]}

\* date_cls.fromisoformat(date): raises ValueError unless the date exists
fromisoformat(date) == date.month \in 1..12 /\ date.day \in 1..28

\* TranscriptStorage.get_transcript: the content, or None
get_transcript(transcript_id) == transcript_id \in StoredTranscripts

\* AnalysisStorage.get_analysis_by_transcript: the most recent row of the transcript
\* (ORDER BY created_at DESC LIMIT 1), as a 0- or 1-element sequence
get_analysis_by_transcript(transcript_id) ==
  LET mine == SelectSeq(analysis_results, LAMBDA row : row.transcript_id = transcript_id)
  IN IF mine = <<>> THEN <<>> ELSE <<mine[Len(mine)]>>

\* AnalysisStorage.save_analysis: one more row, the newest
save_analysis(analysis_id, transcript_id, team, product, meeting_date, analysis_data) ==
  Append(analysis_results,
         [id |-> analysis_id, transcript_id |-> transcript_id, team |-> team,
          product |-> product, meeting_date |-> meeting_date,
          analysis_data |-> analysis_data])

\* History: the rows stored for the tuple of a request when it arrives
StoredFor(transcript_id, team, product, date) ==
  SelectSeq(analysis_results,
            LAMBDA row : /\ row.transcript_id = transcript_id /\ row.team = team
                         /\ row.product = product /\ row.meeting_date = date)

\* POST /analyze, app.py 175-234, handled without another analyze request in between
analyze_meeting(transcript_id, team, product, date) ==
  /\ analyzed.reqs < MaxAnalyzeReqs
  /\ LET existing_analysis == get_analysis_by_transcript(transcript_id)
         before == StoredFor(transcript_id, team, product, date)
         asked == [transcript_id |-> transcript_id, team |-> team, product |-> product,
                   date |-> date, before |-> before]
         Answer(status, body, id, extracted) ==
           <<[asked |-> asked, status |-> status, body |-> body, analysis_id |-> id,
              extracted |-> extracted]>>
     IN IF ~get_transcript(transcript_id)
        THEN \* 195-197: HTTPException(404)
             /\ analyzed' = [analyzed EXCEPT !.reqs = @ + 1,
                                             !.last = Answer(404, <<>>, 0, FALSE)]
             /\ UNCHANGED analysis_results
        ELSE IF /\ existing_analysis # <<>>
                /\ existing_analysis[1].team = team
                /\ existing_analysis[1].product = product
                /\ existing_analysis[1].meeting_date = date
        THEN \* 200-209: the stored analysis with its id
             /\ analyzed' = [analyzed EXCEPT
                              !.reqs = @ + 1,
                              !.last = Answer(200, existing_analysis[1].analysis_data,
                                              existing_analysis[1].id, FALSE)]
             /\ UNCHANGED analysis_results
        ELSE IF ~fromisoformat(date)
        THEN \* 214, 231-232: ValueError -> HTTPException(400)
             /\ analyzed' = [analyzed EXCEPT !.reqs = @ + 1,
                                             !.last = Answer(400, <<>>, 0, FALSE)]
             /\ UNCHANGED analysis_results
        ELSE \/ \* 217: analyze_transcript raises ValueError -> HTTPException(400)
                /\ analyzed' = [analyzed EXCEPT !.reqs = @ + 1,
                                                !.last = Answer(400, <<>>, 0, TRUE)]
                /\ UNCHANGED analysis_results
             \/ \* 217-229: a new analysis under a new uuid
                \E analysis \in Extractions :
                  LET analysis_id == analyzed.ids + 1
                  IN /\ analysis_results' = save_analysis(analysis_id, transcript_id, team,
                                                          product, date, analysis)
                     /\ analyzed' = [reqs |-> analyzed.reqs + 1, ids |-> analysis_id,
                                     last |-> Answer(200, analysis, analysis_id, TRUE)]
  /\ UNCHANGED <<probe, env, schema, pages, sync_status, pc, request, local, response,
                 started, faults, hist, lastDone, everOk, standing>>

\* A restart of the service between analyze requests: cleanup_old_data over the
\* analysis rows (no sync has run, so sync_status is empty)
AnalyzeNext ==
  \/ \E transcript_id \in TranscriptIds, team \in Teams, product \in Products, date \in Dates :
       analyze_meeting(transcript_id, team, product, date)
  \/ cleanup_old_data

AnalyzeInit == Init /\ env = StdEnv /\ schema = FullSchema

SpecAnalyze == AnalyzeInit /\ [][AnalyzeNext]_vars

TypeOK ==
  /\ started \in 0..MaxReqs
  /\ \A r \in Slots : pc[r] \in {"idle", "query", "write", "save", "done"}

\* ------------------------------------------------------------- helpers of the properties
\* The request of slot r got past the cache check and the precondition checks
Executing(r) == pc[r] \in {"query", "write", "save"}

\* The request of slot r returned the SyncResult sync_to_notion computed
Executed(r) == pc[r] = "done" /\ ~hist[r].hit /\ response[r].status = 200

\* Slot r takes the step that ends the upsert of its current item
UpsertStep(r) == pc[r] = "write" /\ pc'[r] # "write"

Last(seq) == seq[Len(seq)]

ExternalIdOf(r, k) ==
  compute_external_id(request[r].meeting_url, ItemAt(request[r].analysis, k).item.title)

\* Pages i < j of one database carrying the same External ID
Duplicates ==
  { ij \in (1..Len(pages)) \X (1..Len(pages)) :
      /\ ij[1] < ij[2]
      /\ pages[ij[1]].db = pages[ij[2]].db
      /\ pages[ij[1]].props["External ID"] = pages[ij[2]].props["External ID"] }

\* ------------------------------------------------------------- C1
\* C1: after any sequence of sync requests (repeated syncs, syncs with failing writes or
\* identity queries, concurrent retries) each remote collection holds at most one
\* record per External ID value.
C1_AtMostOneRecordPerExternalId == Duplicates = {}

\* ------------------------------------------------------------- C2
\* C2: every upsert call that returns an outcome either updates in place the record the
\* identity query returned (a record of the derived External ID; no record is created;
\* outcome 'updated' with that record's id) or, when the query returned none, creates
\* exactly one record in the target collection (outcome 'created' with the new id);
\* an upsert call that raises writes nothing.
C2_UpdateFoundElseCreateOne ==
  [][\A r \in Slots : UpsertStep(r) =>
       LET k == local[r].idx
           found == local[r].existing_page_id
           out == Last(hist'[r].outcomes)
           it == ItemAt(request[r].analysis, k)
           props == PropertiesOf(it, request[r].meeting_url)
       IN /\ found # 0 => pages[found].props["External ID"] = ExternalIdOf(r, k)
          /\ out.action = "raised" => pages' = pages
          /\ (out.action # "raised" /\ found # 0) =>
               /\ out = [action |-> "updated", page_id |-> found]
               /\ Len(pages') = Len(pages)
               /\ \A i \in 1..Len(pages) : i # found => pages'[i] = pages[i]
               /\ pages'[found].db = pages[found].db
               /\ \A n \in DOMAIN props : pages'[found].props[n] = props[n]
          /\ (out.action # "raised" /\ found = 0) =>
               /\ out = [action |-> "created", page_id |-> Len(pages) + 1]
               /\ Len(pages') = Len(pages) + 1
               /\ SubSeq(pages', 1, Len(pages)) = pages
               /\ Last(pages') = [db |-> DbOf(env, request[r].analysis, k), props |-> props]]_vars

\* C2 witness: one request has had an upsert create a record and another update one
C2_Witness ==
  \E r \in Slots : \E i, j \in 1..Len(hist[r].outcomes) :
     /\ hist[r].outcomes[i].action = "created"
     /\ hist[r].outcomes[j] = [action |-> "updated", page_id |-> hist[r].outcomes[i].page_id]

\* ------------------------------------------------------------- C3
\* C3: a sync request whose analysis_id has a stored result with an empty error list
\* returns exactly that stored result; sync_to_notion is not invoked and no remote
\* read or write is made.
C3_CacheHitReturnsStored ==
  \A r \in Slots :
    (/\ pc[r] # "idle"
     /\ request[r].analysis_id # ""
     /\ hist[r].cached # <<>>
     /\ hist[r].cached[1].sync_result.errors = <<>>)
    => /\ pc[r] = "done"
       /\ response[r] = [status |-> 200, body |-> hist[r].cached[1].sync_result]
       /\ ~hist[r].invoked
       /\ hist[r].reads = 0 /\ hist[r].writes = 0 /\ hist[r].outcomes = <<>>

\* C3 witness: a request answered from the cache with a result that counts a record
C3_Witness ==
  \E r \in Slots :
    /\ pc[r] = "done" /\ hist[r].hit
    /\ hist[r].cached # <<>> /\ hist[r].cached[1].sync_result.errors = <<>>
    /\ response[r].body.created.actions > 0

C5_SecondSyncAllUpdated ==
  \A r \in Slots :
    (/\ pc[r] = "done" /\ response[r].status = 200
     /\ hist[r].pred # <<>> /\ hist[r].pred[1].status = 200)
    => \/ /\ hist[r].hit
          /\ hist[r].pred[1].body.errors = <<>>
          /\ response[r].body = hist[r].pred[1].body
       \/ /\ ~hist[r].hit
          /\ \A k \in 1..Len(hist[r].outcomes) : hist[r].outcomes[k].action = "updated"

\* C5 amended: the same analysis synced twice in a row with nothing in between: (a) when
\* an analysis_id was given and the first result had no errors, the second call returns
\* it unchanged from the cache; (b) otherwise the sync is re-executed, and in it an item
\* whose write raises is an error, an item whose identity query fails is 'created', and
\* every other item that the first call counted as created or updated is 'updated', not
\* 'created' (an item that failed in the first call may be 'created').
C5_SecondSyncUpdatesWhatFirstWrote ==
  \A r \in Slots :
    (/\ pc[r] = "done" /\ response[r].status = 200
     /\ hist[r].pred # <<>> /\ hist[r].pred[1].status = 200)
    => LET first == hist[r].pred[1]
       IN IF request[r].analysis_id # "" /\ first.body.errors = <<>>
          THEN hist[r].hit /\ response[r].body = first.body
          ELSE /\ ~hist[r].hit /\ ~first.hit
               /\ Len(hist[r].outcomes) = Len(first.outcomes)
               /\ \A k \in 1..Len(hist[r].outcomes) :
                    \/ hist[r].outcomes[k].action = "raised"
                    \/ k \in hist[r].qfailed /\ hist[r].outcomes[k].action = "created"
                    \/ k \notin hist[r].qfailed /\ hist[r].outcomes[k].action = "updated"
                    \/ /\ k \notin hist[r].qfailed
                       /\ hist[r].outcomes[k].action = "created"
                       /\ first.outcomes[k].action = "raised"

\* C5 witness: a re-executed second sync of an analysis whose first sync had created a
\* record and failed on another item; it reports the created item as updated
C5_Witness ==
  \E r \in Slots :
    /\ pc[r] = "done" /\ hist[r].pred # <<>> /\ ~hist[r].hit
    /\ hist[r].pred[1].body.errors # <<>>
    /\ \E k \in 1..Len(hist[r].outcomes) :
         hist[r].pred[1].outcomes[k].action = "created" /\ hist[r].outcomes[k].action = "updated"

\* ------------------------------------------------------------- C6
\* Number of error strings of `results` about items of the given kind
ErrorsOfKind(results, kind) ==
  Cardinality({ i \in 1..Len(results.errors) : results.errors[i].kind = kind })

\* C6: in every SyncResult of sync, per category created + updated is at most the number
\* of items submitted, and every submitted item is accounted for exactly once, in
\* created or updated or by one error string (so created + updated + errors = items).
C6_EveryItemCountedOnce ==
  \A r \in Slots : Executed(r) =>
    LET res == response[r].body
        p == request[r].analysis
    IN /\ res.created.actions + res.updated.actions <= Len(p.actions)
       /\ res.created.decisions + res.updated.decisions <= Len(p.decisions)
       /\ res.created.actions + res.updated.actions + ErrorsOfKind(res, "Action") = Len(p.actions)
       /\ res.created.decisions + res.updated.decisions + ErrorsOfKind(res, "Decision")
            = Len(p.decisions)
       /\ res.created.actions + res.updated.actions + res.created.decisions
            + res.updated.decisions + Len(res.errors) = NumItems(p)

\* C6 witness: a returned SyncResult with one item counted and one item in errors
C6_Witness ==
  \E r \in Slots :
    /\ Executed(r)
    /\ Len(response[r].body.errors) = 1
    /\ response[r].body.created.actions + response[r].body.updated.actions = 1

\* ------------------------------------------------------------- C7
\* C7: no item's failure aborts the batch: once sync has passed its precondition checks
\* an upsert is attempted for every action item and every decision exactly once,
\* whatever earlier items raised; the SyncResult is returned only after all were
\* attempted, and a per-item write error never makes the request fail.
C7_EveryItemAttemptedOnce ==
  \A r \in Slots :
    /\ Executing(r) =>
         /\ local[r].idx = Len(hist[r].outcomes) + 1
         /\ hist[r].writes = Len(hist[r].outcomes)
         /\ (pc[r] = "save" <=> Len(hist[r].outcomes) = NumItems(request[r].analysis))
    /\ (pc[r] = "done" /\ hist[r].invoked /\ Precondition(env, request[r].analysis) = "") =>
         /\ Len(hist[r].outcomes) = NumItems(request[r].analysis)
         /\ hist[r].writes = NumItems(request[r].analysis)
         /\ response[r].status = 200
         /\ response[r].body = local[r].results

\* C7 witness: a returned SyncResult whose first item raised and whose second item
\* was attempted and written after it
C7_Witness ==
  \E r \in Slots :
    /\ Executed(r)
    /\ Len(hist[r].outcomes) = 2
    /\ hist[r].outcomes[1].action = "raised"
    /\ hist[r].outcomes[2].action = "created"

\* ------------------------------------------------------------- C8
\* Items of the request of slot r whose remote write raised
RaisedItems(r) == { k \in 1..Len(hist[r].outcomes) : hist[r].outcomes[k].action = "raised" }

\* C8: when exactly item k's remote write raises in a batch of N items, the error list
\* has exactly one entry, "<Kind> '<title>': <message>" with item k's kind and title,
\* and the other N-1 items are each counted in created or updated.
C8_OneFailureOneError ==
  \A r \in Slots : (Executed(r) /\ Cardinality(RaisedItems(r)) = 1) =>
    LET k == CHOOSE k \in RaisedItems(r) : TRUE
        it == ItemAt(request[r].analysis, k)
        res == response[r].body
    IN /\ Len(res.errors) = 1
       /\ res.errors[1].kind = it.kind
       /\ res.errors[1].title = it.item.title
       /\ res.created.actions + res.updated.actions + res.created.decisions
            + res.updated.decisions = NumItems(request[r].analysis) - 1

\* C8 witness: a batch of two action items in which only the second one's write raised
C8_Witness ==
  \E r \in Slots :
    /\ Executed(r)
    /\ RaisedItems(r) = {2}
    /\ response[r].body.created.actions = 1
    /\ response[r].body.errors[1].title = ActionAbSpaced.title

\* ------------------------------------------------------------- C9
\* C9: a failed identity query is treated as 'no existing record': the upsert goes on
\* to one create call (outcome 'created' if the create succeeds); the query failure
\* adds nothing to the error list and does not fail the request.
C9_QueryFailureFailsOpen ==
  [][\A r \in Slots :
       /\ (pc[r] = "query" /\ local[r].idx \in hist'[r].qfailed) =>
            /\ pc'[r] = "write"
            /\ local'[r] = [local[r] EXCEPT !.existing_page_id = 0]
            /\ pages' = pages
       /\ (UpsertStep(r) /\ local[r].idx \in hist[r].qfailed) =>
            /\ hist'[r].writes = hist[r].writes + 1
            /\ \/ /\ Last(hist'[r].outcomes) = [action |-> "created", page_id |-> Len(pages) + 1]
                  /\ Len(pages') = Len(pages) + 1
                  /\ local'[r].results.errors = local[r].results.errors
               \/ /\ Last(hist'[r].outcomes).action = "raised"
                  /\ pages' = pages
                  /\ Len(local'[r].results.errors) = Len(local[r].results.errors) + 1
                  /\ Last(local'[r].results.errors).message.error
                       \in {"unreachable", "validation_error"}]_vars

\* C9 witness: a request returned a SyncResult without errors although the identity
\* query of one of its items had failed; the item was created
C9_Witness ==
  \E r \in Slots :
    /\ Executed(r)
    /\ response[r].body.errors = <<>>
    /\ \E k \in hist[r].qfailed : hist[r].outcomes[k].action = "created"

\* ------------------------------------------------------------- C10
\* C10: when the schema of the remote collection lacks an optional property that is
\* present on the item, the property is skipped and the write succeeds with the rest:
\* no item is in errors because of a property the schema lacks.
C10_MissingOptionalPropertySkipped ==
  \A r \in Slots : \A i \in 1..Len(local[r].results.errors) :
    local[r].results.errors[i].message.error # "validation_error"

\* ------------------------------------------------------------- C11
\* C11: when NOTION_BACKLOG_DB or NOTION_DECISIONS_DB is missing, a request that
\* reaches sync_to_notion fails with the configuration error (400): it has issued no
\* remote read and no remote write, has processed no item and has built no
\* SyncResult, and the remote store and the sync_status table are untouched.
C11_MissingDatabaseIdFailsBeforeAnyCall ==
  \A r \in Slots :
    (hist[r].invoked /\ (env.backlog_db = "" \/ env.decisions_db = "")) =>
      /\ pc[r] = "done"
      /\ response[r].status = 400
      /\ local[r] = NoLocal
      /\ hist[r].reads = 0 /\ hist[r].writes = 0
      /\ hist[r].calls = <<>> /\ hist[r].outcomes = <<>>
      /\ pages = <<>>
      /\ sync_status = <<>>

\* C11 witness: a request with a well-formed payload was refused where the token and
\* the backlog database are configured and only the decisions database is missing
C11_Witness ==
  \E r \in Slots :
    /\ hist[r].invoked
    /\ env.token /\ env.backlog_db # "" /\ env.decisions_db = ""
    /\ AnalysisValid(request[r].analysis)
    /\ pc[r] = "done" /\ response[r].status = 400

\* ------------------------------------------------------------- C12
\* The payload has an item the Analysis model does not accept
Malformed(p) == \E i \in 1..Len(p.actions) : p.actions[i].priority \notin {"", "P0", "P1", "P2"}

\* C12: a request with a malformed analysis payload fails as a client-input failure
\* (400), and no remote call is issued for any item of the payload.
C12_MalformedPayloadFails ==
  \A r \in Slots :
    (pc[r] # "idle" /\ Malformed(request[r].analysis)) =>
      /\ pc[r] = "done"
      /\ response[r].status = 400
      /\ hist[r].reads = 0 /\ hist[r].writes = 0 /\ hist[r].calls = <<>>

\* C12 as amended: a request with a malformed payload issues no remote call for any
\* item; it fails with 400 unless the cache check answered it first, in which case
\* it returns the stored SyncResult with 200 and the payload is never validated.
C12_MalformedPayloadFailsUnlessCached ==
  \A r \in Slots :
    (pc[r] # "idle" /\ Malformed(request[r].analysis)) =>
      /\ pc[r] = "done"
      /\ hist[r].reads = 0 /\ hist[r].writes = 0 /\ hist[r].calls = <<>>
      /\ hist[r].outcomes = <<>>
      /\ IF hist[r].hit
         THEN response[r] = [status |-> 200, body |-> hist[r].cached[1].sync_result]
         ELSE response[r].status = 400 /\ local[r] = NoLocal

\* C12 witness: a payload whose first item is well formed and whose second is not was
\* refused with 400 in a complete deployment, after the cache check had missed
C12_Witness ==
  \E r \in Slots :
    /\ pc[r] = "done" /\ ~hist[r].hit /\ response[r].status = 400
    /\ env.token /\ env.backlog_db # "" /\ env.decisions_db # ""
    /\ Malformed(request[r].analysis)
    /\ ActionItemValid(request[r].analysis.actions[1])
    /\ hist[r].calls = <<>>

\* ------------------------------------------------------------- C13
\* Whitespace and letter case, stated without the functions of the model
Blank(c) == c \in {" ", "\t"}

SameLetter(c, d) == c = d \/ {c, d} \in {{"A", "a"}, {"B", "b"}, {"C", "c"}}

\* The title between its first and its last character that is not blank
Core(t) ==
  LET ink == { i \in 1..Len(t) : ~Blank(t[i]) }
  IN IF ink = {} THEN <<>>
     ELSE SubSeq(t, CHOOSE i \in ink : \A j \in ink : i <= j,
                    CHOOSE i \in ink : \A j \in ink : j <= i)

\* The two titles are equal after trimming surrounding whitespace and lowercasing
SameTitle(t1, t2) ==
  /\ Len(Core(t1)) = Len(Core(t2))
  /\ \A i \in 1..Len(Core(t1)) : SameLetter(Core(t1)[i], Core(t2)[i])

\* C13: for any meeting_url, two titles that are equal after trimming surrounding
\* whitespace and lowercasing derive the same External ID; compute_external_id reads
\* nothing but its two arguments, so no sync history, cache content or remote state
\* takes part.
C13_EqualNormalisedTitlesSameIdentity ==
  (probe.done /\ probe.url1 = probe.url2 /\ SameTitle(probe.title1, probe.title2)) =>
    probe.id1 = probe.id2

\* C13 witness: two titles that differ in case and in surrounding blanks got one identity
C13_Witness ==
  /\ probe.done
  /\ probe.url1 = probe.url2
  /\ probe.title1 = <<" ", "A", " ">> /\ probe.title2 = <<"a">>
  /\ probe.id1 = probe.id2

\* ------------------------------------------------------------- C14
\* C14: for one meeting_url, two titles that differ after trimming surrounding
\* whitespace and lowercasing derive different External IDs (sha256 taken as
\* injective): punctuation and internal spacing are significant.
C14_DifferentNormalisedTitlesDifferentIdentity ==
  (probe.done /\ probe.url1 = probe.url2 /\ ~SameTitle(probe.title1, probe.title2)) =>
    probe.id1 # probe.id2

\* C14 witness: titles that differ only by an internal blank, and titles that differ
\* only by a punctuation mark, got different identities
C14_Witness ==
  /\ probe.done
  /\ probe.url1 = probe.url2
  /\ \/ probe.title1 = <<"a", " ", "a">> /\ probe.title2 = <<"a", "a">>
     \/ probe.title1 = <<"a", "|">> /\ probe.title2 = <<"a">>
  /\ probe.id1 # probe.id2

\* ------------------------------------------------------------- C15
\* Pages of database db that carry External ID eid, in the page list pgs
Carrying(pgs, db, eid) ==
  { i \in 1..Len(pgs) : pgs[i].db = db /\ pgs[i].props["External ID"] = eid }

\* C15: once an upsert has written the record of an identity into a collection, a
\* later upsert into the same collection with the same meeting_url and a title that
\* normalises to the same text (it differs at most in case and surrounding
\* whitespace) and that returns an outcome reports 'updated', not 'created', and the
\* collection still holds a single record of that identity.
C15_LaterUpsertUpdatesTheSingleRecord ==
  [][\A r \in Slots : UpsertStep(r) =>
       LET k == local[r].idx
           db == DbOf(env, request[r].analysis, k)
           eid == ExternalIdOf(r, k)
           out == Last(hist'[r].outcomes)
       IN (Cardinality(Carrying(pages, db, eid)) = 1 /\ out.action # "raised") =>
            /\ out.action = "updated"
            /\ Cardinality(Carrying(pages', db, eid)) = 1]_vars

\* ------------------------------------------------------------- C16
\* The request of slot r carries an analysis_id whose stored result, as the cache
\* check read it, has a non-empty error list
ReadErrors(r) ==
  /\ request[r].analysis_id # ""
  /\ hist[r].cached # <<>>
  /\ hist[r].cached[1].sync_result.errors # <<>>

C17_DuplicateCreatedOnlyByInterleaving ==
  [][\A r \in Slots : UpsertStep(r) =>
       LET k == local[r].idx
           db == DbOf(env, request[r].analysis, k)
           eid == ExternalIdOf(r, k)
           out == Last(hist'[r].outcomes)
       IN (out.action = "created" /\ k \notin hist[r].qfailed) =>
            /\ local[r].existing_page_id = 0
            /\ \A i \in Carrying(pages, db, eid) : i > hist[r].seen]_vars

\* C17 witness: no remote call has failed, two requests in flight together sent the
\* same analysis_id and both missed the cache of an empty table, and each has created
\* a record of one External ID in one database
C17_Witness ==
  /\ faults = 0
  /\ \E r, q \in Slots :
       /\ r # q
       /\ request[r].analysis_id # "" /\ request[r].analysis_id = request[q].analysis_id
       /\ ~hist[r].hit /\ hist[r].cached = <<>>
       /\ ~hist[q].hit /\ hist[q].cached = <<>>
       /\ \E ij \in Duplicates :
            /\ \E m \in 1..Len(hist[r].outcomes) :
                 hist[r].outcomes[m] = [action |-> "created", page_id |-> ij[1]]
            /\ \E n \in 1..Len(hist[q].outcomes) :
                 hist[q].outcomes[n] = [action |-> "created", page_id |-> ij[2]]

\* ------------------------------------------------------------- C18
\* The remote calls of the upserts of `items`, one after another: for each item in
\* list order its identity query, then its write
CallsOf(kind, items) ==
  [n \in 1..(2 * Len(items)) |->
     <<IF n % 2 = 1 THEN "query" ELSE "write", kind, items[(n + 1) \div 2].title>>]

\* The remote calls of one whole sync: those of the actions, then those of the decisions
CallsInOrder(p) == CallsOf("Action", p.actions) \o CallsOf("Decision", p.decisions)

\* C18: within one request the items are processed one after another in a fixed
\* order: the remote calls the request has issued are always a prefix of "query and
\* write of each action in list order, then query and write of each decision in list
\* order", so the upsert of every action has completed before that of any decision
\* starts; each step of the request issues at most one remote call, and the request
\* that returns its SyncResult has issued all of them.
C18_ItemsProcessedSequentiallyInOrder ==
  [][\A r \in Slots : pc'[r] # "idle" =>
       LET calls == hist'[r].calls
           all == CallsInOrder(request'[r].analysis)
       IN /\ Len(calls) <= Len(all)
          /\ calls = SubSeq(all, 1, Len(calls))
          /\ pc'[r] = "write" <=> Len(calls) % 2 = 1
          /\ Executed(r)' => calls = all
          /\ pc[r] # "idle" /\ request'[r] = request[r] /\ ~Free(r) =>
               Len(calls) <= Len(hist[r].calls) + 1]_vars

\* C18 witness: a request with an action and a decision has completed both upserts,
\* the action's query and write before the decision's query and write
C18_Witness ==
  \E r \in Slots :
    /\ Executed(r)
    /\ Len(request[r].analysis.actions) > 0 /\ Len(request[r].analysis.decisions) > 0
    /\ Len(hist[r].calls) = 4
    /\ hist[r].calls[2][2] = "Action" /\ hist[r].calls[3][2] = "Decision"

\* ------------------------------------------------------------- C19
\* The four counts of a SyncResult
Counts(results) ==
  <<results.created.actions, results.created.decisions,
    results.updated.actions, results.updated.decisions>>

\* How many times each entry occurs in the error list
ErrorBag(results) ==
  [e \in {results.errors[i] : i \in 1..Len(results.errors)} |->
     Cardinality({i \in 1..Len(results.errors) : results.errors[i] = e})]

\* C19: for any analysis, any initial remote state, any pair of configured database
\* ids and any fixed pattern of failing calls, processing the actions before the
\* decisions and the decisions before the actions give the same four counts.
C19_OrderIndependentCounts ==
  probe.done => Counts(probe.actions_first) = Counts(probe.decisions_first)

\* C19 as amended: the same, for any pair of different database ids; the error
\* lists then hold the same entries, in an order that may differ.
C19_OrderIndependentCountsDistinctDatabases ==
  (probe.done /\ env.backlog_db # env.decisions_db) =>
    /\ Counts(probe.actions_first) = Counts(probe.decisions_first)
    /\ ErrorBag(probe.actions_first) = ErrorBag(probe.decisions_first)

\* C19 witness: with two databases, a sync with an upsert that succeeded and with a
\* failed action and a failed decision gave the same counts in both orders and the
\* errors in a different order
C19_Witness ==
  /\ probe.done
  /\ env.backlog_db # env.decisions_db
  /\ Counts(probe.actions_first) = Counts(probe.decisions_first)
  /\ Counts(probe.actions_first) # <<0, 0, 0, 0>>
  /\ probe.actions_first.errors # probe.decisions_first.errors

\* ------------------------------------------------------------- C20
\* The page lists differ in at most one page: one appended or one overwritten
AtMostOnePageWritten(old, new) ==
  \/ new = old
  \/ Len(new) = Len(old) + 1 /\ SubSeq(new, 1, Len(old)) = old
  \/ /\ Len(new) = Len(old)
     /\ Cardinality({i \in 1..Len(old) : new[i] # old[i]}) = 1

\* C20: every upsert call issues one remote read (its identity query, never more) and
\* then exactly one remote write, a create or an update, which changes at most one
\* remote page; neither step touches the sync_status table or the request and its
\* items.
C20_UpsertOneReadOneWrite ==
  [][\A r \in Slots :
       /\ (pc[r] = "query" /\ pc'[r] # "query") =>
            /\ pc'[r] = "write"
            /\ hist'[r].reads = hist[r].reads + 1
            /\ hist'[r].writes = hist[r].writes
            /\ pages' = pages
            /\ sync_status' = sync_status /\ request' = request
       /\ UpsertStep(r) =>
            /\ hist'[r].writes = hist[r].writes + 1
            /\ hist'[r].reads = hist[r].reads
            /\ hist[r].reads = hist'[r].writes
            /\ AtMostOnePageWritten(pages, pages')
            /\ Last(hist'[r].outcomes).action = "raised" => pages' = pages
            /\ sync_status' = sync_status /\ request' = request
       /\ ~(pc[r] \in {"query", "write"}) =>
            hist'[r].reads \in {0, hist[r].reads} /\ hist'[r].writes \in {0, hist[r].writes}]_vars

\* C20 witness: a request with an analysis_id is between its first upsert, which made
\* one query and one create, and its second; the sync_status table is still empty
C20_Witness ==
  \E r \in Slots :
    /\ pc[r] = "query" /\ local[r].idx = 2
    /\ request[r].analysis_id # ""
    /\ hist[r].reads = 1 /\ hist[r].writes = 1
    /\ hist[r].outcomes[1].action = "created"
    /\ Len(pages) = 1
    /\ sync_status = <<>>

\* ------------------------------------------------------------- C21
\* C21: no remote record is ever deleted. The remote calls a request issues are
\* identity queries and writes, every write is a create or an update or raises, and
\* no step of any request or of the service removes a page or moves it to another
\* database: the set of remote record ids never shrinks.
C21_NoRemoteRecordDeleted ==
  [][/\ Len(pages') >= Len(pages)
     /\ \A i \in 1..Len(pages) : pages'[i].db = pages[i].db
     /\ \A r \in Slots :
          /\ \A n \in 1..Len(hist'[r].calls) : hist'[r].calls[n][1] \in {"query", "write"}
          /\ \A n \in 1..Len(hist'[r].outcomes) :
               hist'[r].outcomes[n].action \in {"created", "updated", "raised"}]_vars

\* C21 witness: a restart has deleted every stored sync result, and the records the
\* syncs had created, one of them updated since, are all still in the remote store
C21_Witness ==
  /\ lastDone = 0 /\ started > 0
  /\ sync_status = <<>>
  /\ Len(pages) >= 1
  /\ \E r \in Slots : \E n \in 1..Len(hist[r].outcomes) : hist[r].outcomes[n].action = "updated"

\* ------------------------------------------------------------- C22
\* C22: an analysis is produced at most once per (transcript, team, product, date):
\* the table never holds two analyses of one tuple, and an analyze request that
\* arrives when an analysis of its tuple is stored returns that analysis and its id
\* without invoking the extraction, whatever other analyze requests for the same
\* transcript came in between.
C22_AnalysisProducedOncePerTuple ==
  /\ \A i, j \in 1..Len(analysis_results) :
       (/\ analysis_results[i].transcript_id = analysis_results[j].transcript_id
        /\ analysis_results[i].team = analysis_results[j].team
        /\ analysis_results[i].product = analysis_results[j].product
        /\ analysis_results[i].meeting_date = analysis_results[j].meeting_date) => i = j
  /\ \A n \in 1..Len(analyzed.last) :
       LET l == analyzed.last[n] IN
       l.asked.before # <<>> =>
         /\ ~l.extracted
         /\ l.status = 200
         /\ \E m \in 1..Len(l.asked.before) :
              /\ l.body = l.asked.before[m].analysis_data
              /\ l.analysis_id = l.asked.before[m].id

\* ------------------------------------------------------------- C23
\* C23: with requests handled one after another, an upsert whose identity query
\* succeeded keeps "at most one record per External ID in each collection": it
\* updates the record of the identity when the collection holds one, creates it when
\* the collection holds none, and leaves no duplicate where there was none. From the
\* empty store, every sequence of syncs whose queries all succeed therefore ends
\* with at most one record per External ID, batches with several items of one
\* normalised title included (the first is created, the later ones update it).
C23_SequentialReliableQueriesNoDuplicate ==
  [][\A r \in Slots : UpsertStep(r) =>
       LET k == local[r].idx
           db == DbOf(env, request[r].analysis, k)
           eid == ExternalIdOf(r, k)
           out == Last(hist'[r].outcomes)
       IN (k \notin hist[r].qfailed /\ Duplicates = {}) =>
            /\ Duplicates' = {}
            /\ (out.action # "raised" /\ Carrying(pages, db, eid) # {}) =>
                 out.action = "updated" /\ out.page_id \in Carrying(pages, db, eid)
            /\ (out.action # "raised" /\ Carrying(pages, db, eid) = {}) =>
                 out.action = "created" /\ Carrying(pages', db, eid) = {Len(pages')}]_vars

\* C23 witness: one batch held two items whose titles differ as written and agree
\* once normalised; both queries succeeded, the first item was created, the second
\* updated that record, and no collection holds a duplicate
C23_Witness ==
  \E r \in Slots :
    /\ Executed(r)
    /\ hist[r].qfailed = {}
    /\ Len(request[r].analysis.actions) = 2
    /\ request[r].analysis.actions[1].title # request[r].analysis.actions[2].title
    /\ ExternalIdOf(r, 1) = ExternalIdOf(r, 2)
    /\ hist[r].outcomes[1].action = "created"
    /\ hist[r].outcomes[2] = [action |-> "updated", page_id |-> hist[r].outcomes[1].page_id]
    /\ Duplicates = {}

\* ------------------------------------------------------------- C24
\* The optional fields of an item that are set and non-empty, by the name of the
\* Notion property that stands for each
PresentFields(it) ==
  IF it.kind = "Action"
  THEN (IF it.item.assignee # "" THEN {"Assignee"} ELSE {})
       \cup (IF it.item.due # "" THEN {"Due"} ELSE {})
       \cup (IF it.item.priority # "" THEN {"Priority"} ELSE {})
       \cup (IF it.item.notes # "" THEN {"Notes"} ELSE {})
  ELSE (IF it.item.owner # "" THEN {"Owner"} ELSE {})
       \cup (IF it.item.rationale # "" THEN {"Rationale"} ELSE {})
       \cup (IF it.item.effective_date # "" THEN {"Effective Date"} ELSE {})

\* C24: the property set of an upsert always holds the title (Name) and the External
\* ID, and every other property in it stands for an optional field that is set on
\* the item or for the meeting_url given to the sync: no property is written for a
\* field the item does not carry.
C24_OnlyPresentFieldsWritten ==
  probe.done =>
    /\ {"Name", "External ID"} \subseteq DOMAIN probe.properties
    /\ probe.properties["Name"] = probe.it.item.title
    /\ DOMAIN probe.properties \ {"Name", "External ID"}
         \subseteq PresentFields(probe.it)
                   \cup (IF probe.meeting_url # <<>> THEN {"Source"} ELSE {})

\* ------------------------------------------------------------- C25
\* The value of the optional field of the item that property n stands for
FieldValue(it, n) ==
  CASE n = "Assignee" -> it.item.assignee
    [] n = "Due" -> it.item.due
    [] n = "Priority" -> it.item.priority
    [] n = "Notes" -> it.item.notes
    [] n = "Owner" -> it.item.owner
    [] n = "Rationale" -> it.item.rationale
    [] n = "Effective Date" -> it.item.effective_date

\* C25: every optional field that is set on an item is carried into the property set
\* of the remote write, with its value: assignee, due, priority and notes of an
\* ActionItem; owner, rationale and effective_date of a Decision.
C25_EveryPresentFieldWritten ==
  probe.done =>
    \A n \in PresentFields(probe.it) :
      /\ n \in DOMAIN probe.properties
      /\ probe.properties[n] = FieldValue(probe.it, n)

\* ------------------------------------------------------------- C26
\* C26: with sha256 taken as injective, two (meeting_url, title) pairs derive the same
\* External ID only if their meeting_urls are equal (None counting as the empty
\* string) and their titles are equal after trimming surrounding whitespace and
\* lowercasing: the "|" separator cannot make pairs with different meeting_urls
\* collide.
C26_SameIdentityOnlyForSameSourceAndTitle ==
  (probe.done /\ probe.id1 = probe.id2) =>
    /\ probe.url1 = probe.url2
    /\ SameTitle(probe.title1, probe.title2)

\* ------------------------------------------------------------- C27
\* C27: the cache check looks at the analysis_id only. A request whose analysis_id
\* has a stored result without errors returns that result and issues no remote call,
\* whatever its payload and its meeting_url; a request without analysis_id reads no
\* row, always invokes sync_to_notion and writes no row.
C27_CacheKeyedByAnalysisIdOnly ==
  [][\A r \in Slots :
       LET arrives == /\ started' = started + 1
                      /\ Free(r) /\ \A q \in Slots : q < r => ~Free(q)
           aid == request'[r].analysis_id
       IN /\ (arrives /\ aid \in DOMAIN sync_status
               /\ sync_status[aid].sync_result.errors = <<>>) =>
               /\ hist'[r].hit /\ ~hist'[r].invoked
               /\ pc'[r] = "done"
               /\ response'[r] = [status |-> 200, body |-> sync_status[aid].sync_result]
               /\ hist'[r].calls = <<>>
               /\ pages' = pages /\ sync_status' = sync_status
          /\ (arrives /\ aid = "") =>
               /\ hist'[r].cached = <<>>
               /\ ~hist'[r].hit /\ hist'[r].invoked
          /\ (request[r].analysis_id = "" /\ pc[r] = "save" /\ pc'[r] = "done") =>
               sync_status' = sync_status]_vars

\* C27 witness: a request was answered from the cache although its meeting_url is not
\* the one stored with the result and its payload has no action, while the result
\* it returned counts an action
C27_Witness ==
  \E r \in Slots :
    /\ pc[r] = "done" /\ hist[r].hit
    /\ request[r].analysis_id \in StoredIds
    /\ sync_status[request[r].analysis_id].meeting_url # request[r].meeting_url
    /\ request[r].analysis.actions = <<>>
    /\ response[r].body.created.actions > 0
    /\ hist[r].calls = <<>>

\* ------------------------------------------------------------- C28
\* C28: a request that fails fatally (the token or a database id is missing, or the
\* payload is malformed, and the cache did not answer it) ends at once with 400 and
\* leaves the sync_status table as it was: nothing is recorded for its analysis_id
\* and a row stored for it before is kept unchanged.
C28_FatalFailureLeavesCacheUnchanged ==
  [][\A r \in Slots :
       LET arrives == /\ started' = started + 1
                      /\ Free(r) /\ \A q \in Slots : q < r => ~Free(q)
           fatal == \/ ~env.token \/ env.backlog_db = "" \/ env.decisions_db = ""
                    \/ Malformed(request'[r].analysis)
       IN (arrives /\ ~hist'[r].hit /\ fatal) =>
            /\ pc'[r] = "done"
            /\ response'[r].status = 400
            /\ sync_status' = sync_status]_vars

\* C28 witness: a request with a malformed payload was refused, and the result with
\* errors stored for its analysis_id before is still the stored row
C28_Witness ==
  \E r \in Slots :
    /\ pc[r] = "done" /\ response[r].status = 400
    /\ Malformed(request[r].analysis)
    /\ hist[r].cached # <<>>
    /\ hist[r].cached[1].sync_result.errors # <<>>
    /\ get_sync_status(request[r].analysis_id) = hist[r].cached

\* ------------------------------------------------------------- C29
\* C29: the record an upsert has created or updated carries, after the write, the
\* External ID derived from the meeting_url of the request and the title (Name) the
\* same write gave the record; an update leaves the External ID of the record it
\* updates as it was.
C29_WrittenRecordCarriesDerivedExternalId ==
  [][\A r \in Slots : UpsertStep(r) =>
       LET out == Last(hist'[r].outcomes)
       IN out.action # "raised" =>
            /\ out.page_id \in 1..Len(pages')
            /\ pages'[out.page_id].props["Name"]
                 = ItemAt(request[r].analysis, local[r].idx).item.title
            /\ pages'[out.page_id].props["External ID"]
                 = compute_external_id(request[r].meeting_url,
                                       pages'[out.page_id].props["Name"])
            /\ out.action = "updated" =>
                 pages'[out.page_id].props["External ID"]
                   = pages[out.page_id].props["External ID"]]_vars

\* C29 witness: a record created under the title "Ab" was updated by an item titled
\* " ab "; it now carries the new title and the External ID it was created with
C29_Witness ==
  \E r \in Slots : \E k \in 1..Len(hist[r].outcomes) :
    /\ hist[r].outcomes[k].action = "updated"
    /\ LET page == pages[hist[r].outcomes[k].page_id]
       IN /\ page.props["Name"] = <<" ", "a", "b", " ">>
          /\ page.props["External ID"]
               = compute_external_id(request[r].meeting_url, <<"A", "b">>)

\* ------------------------------------------------------------- C30
\* C30: provided every remote call returns or raises, a request that has passed its
\* precondition checks eventually returns its SyncResult: the loops take one upsert
\* attempt per item, without retry, and nothing cancels or suspends them.
C30_StartedSyncReturnsResult ==
  \A r \in Slots : Executing(r) ~> Executed(r)

\* C30 witness: a request whose two upserts both raised has returned its SyncResult
\* after one attempt for each
C30_Witness ==
  \E r \in Slots :
    /\ Executed(r)
    /\ NumItems(request[r].analysis) = 2
    /\ hist[r].writes = 2
    /\ \A k \in 1..2 : hist[r].outcomes[k].action = "raised"
    /\ Len(response[r].body.errors) = 2

====
